---- MODULE Spec2Model ----
(***************************************************************************)
(* Model of src/parse_drd.py: parse_drd_content, the two-grain header      *)
(* segmentation of a text buffer into Axis / Area / Level entries.         *)
(*                                                                         *)
(* A text is a sequence of one-character strings.  Offsets are 0-based as  *)
(* in Python: the character at offset p of s is s[p+1] and the slice       *)
(* s[a:b] is Slice(s, a, b).                                               *)
(***************************************************************************)
EXTENDS Integers, Sequences, FiniteSets, TLC

(* ---------------------------- bounds ----------------------------------- *)

\* number of fragments the input buffer is assembled from
MaxFrags == 4
\* length of the raw Level span texts fed to the description normalization
MaxDescLen == 5

(* ------------------------- character classes --------------------------- *)

\* the whitespace class of str.strip() and of \s in a str pattern
IsSpace(c) == c \in {" ", "\t", "\n", "\r", "\f"}

\* \d
IsDigit(c) == c \in {"0", "1", "2", "3", "4", "5", "6", "7", "8", "9"}

\* [A-Z]
IsUpper(c) == c \in {"A", "B", "C", "D", "E", "F", "G", "H", "I", "J", "K",
                     "L", "M", "N", "O", "P", "Q", "R", "S", "T", "U", "V",
                     "W", "X", "Y", "Z"}

\* a slip: the patterns compiled with re.DOTALL, . matches the newline too
IsDotAll(c) == TRUE

\* . (without DOTALL): any character but the newline
IsDot(c) == c # "\n"

\* membership of c in the character class named P
InClass(c, P) ==
    CASE P = "\\s" -> IsSpace(c)
      [] P = "\\d" -> IsDigit(c)
      [] P = "." -> IsDot(c)

(* ------------------------------ strings -------------------------------- *)

\* s[a:b]
Slice(s, a, b) == SubSeq(s, a + 1, b)

\* offset where the longest run of characters of the class P, begun at offset
\* i, ends: what a greedy P* consumes from i
RunEnd(s, i, P) ==
    CHOOSE j \in i..Len(s) :
        /\ \A k \in (i + 1)..j : InClass(s[k], P)
        /\ (j = Len(s) \/ ~InClass(s[j + 1], P))

\* the literal w occurs in s at offset i
LiteralAt(s, i, w) ==
    /\ i + Len(w) <= Len(s)
    /\ \A k \in 1..Len(w) : s[i + k] = w[k]

DigitVal(c) ==
    CASE c = "0" -> 0 [] c = "1" -> 1 [] c = "2" -> 2 [] c = "3" -> 3
      [] c = "4" -> 4 [] c = "5" -> 5 [] c = "6" -> 6 [] c = "7" -> 7
      [] c = "8" -> 8 [] c = "9" -> 9

DigitChar(n) ==
    CASE n = 0 -> "0" [] n = 1 -> "1" [] n = 2 -> "2" [] n = 3 -> "3"
      [] n = 4 -> "4" [] n = 5 -> "5" [] n = 6 -> "6" [] n = 7 -> "7"
      [] n = 8 -> "8" [] n = 9 -> "9"

\* int(s) for a non-empty string of digits
RECURSIVE ParseInt(_)
ParseInt(s) ==
    IF Len(s) = 1 THEN DigitVal(s[1])
    ELSE 10 * ParseInt(SubSeq(s, 1, Len(s) - 1)) + DigitVal(s[Len(s)])

\* the decimal text of n as an f-string prints it
RECURSIVE IntToStr(_)
IntToStr(n) ==
    IF n < 10 THEN <<DigitChar(n)>>
    ELSE IntToStr(n \div 10) \o <<DigitChar(n % 10)>>

\* a slip: s.lstrip(), the trailing whitespace stays
StripLeft(s) == Slice(s, RunEnd(s, 0, "\\s"), Len(s))

\* s.strip()
Strip(s) ==
    LET a == RunEnd(s, 0, "\\s")
    IN  IF a = Len(s) THEN <<>>
        ELSE LET b == CHOOSE j \in (a + 1)..Len(s) :
                          /\ ~IsSpace(s[j])
                          /\ \A k \in (j + 1)..Len(s) : IsSpace(s[k])
             IN  Slice(s, a, b)

\* s.replace('\n', ' ')
ReplaceNewlines(s) == [k \in 1..Len(s) |-> IF s[k] = "\n" THEN " " ELSE s[k]]

\* a slip: re.sub(r'\s\s', ' ', s), only pairs of whitespace are replaced
RECURSIVE SubSpacesPairs(_, _)
SubSpacesPairs(s, pos) ==
    IF pos >= Len(s) THEN <<>>
    ELSE IF pos + 1 < Len(s) /\ IsSpace(s[pos + 1]) /\ IsSpace(s[pos + 2])
         THEN <<" ">> \o SubSpacesPairs(s, pos + 2)
         ELSE <<s[pos + 1]>> \o SubSpacesPairs(s, pos + 1)

\* re.sub(r'\s+', ' ', s), scanning from offset pos
RECURSIVE SubSpaces(_, _)
SubSpaces(s, pos) ==
    IF pos >= Len(s) THEN <<>>
    ELSE IF IsSpace(s[pos + 1])
         THEN <<" ">> \o SubSpaces(s, RunEnd(s, pos, "\\s"))
         ELSE <<s[pos + 1]>> \o SubSpaces(s, pos + 1)

\* the description clean-up of a Level span text
Normalize(s) == SubSpaces(Strip(ReplaceNewlines(s)), 0)

(* ----------------------------- the grammars ---------------------------- *)

AreaWord == <<"A", "r", "e", "a", " ">>
LevelWord == <<"L", "e", "v", "e", "l">>

\* area_pattern r"Area (\d)([A-Z])\.\s*(.*)" matches at offset i
AreaMatchesAt(s, i) ==
    /\ LiteralAt(s, i, AreaWord)
    /\ i + 8 <= Len(s)
    /\ IsDigit(s[i + 6])
    /\ IsUpper(s[i + 7])
    /\ s[i + 8] = "."

\* the match object of area_pattern at offset i; \s* and .* are greedy and
\* nothing after them can fail, so no backtracking takes place
AreaMatchAt(s, i) ==
    LET g3s == RunEnd(s, i + 8, "\\s")
        g3e == RunEnd(s, g3s, ".")
    IN  [start |-> i, end |-> g3e,
         g1 |-> <<s[i + 6]>>, g2 |-> <<s[i + 7]>>, g3 |-> Slice(s, g3s, g3e)]

\* list(area_pattern.finditer(s)), scanning from offset pos
RECURSIVE AreaFindIter(_, _)
AreaFindIter(s, pos) ==
    IF pos >= Len(s) THEN <<>>
    ELSE IF AreaMatchesAt(s, pos)
         THEN <<AreaMatchAt(s, pos)>> \o AreaFindIter(s, AreaMatchAt(s, pos).end)
         ELSE AreaFindIter(s, pos + 1)

\* level_pattern r"Level\s*(\d+)\s*\.\s*(.*)" matches at offset i: a digit
\* is never whitespace or a period, so giving back characters of a greedy
\* run cannot turn a failure into a match
LevelMatchesAt(s, i) ==
    /\ LiteralAt(s, i, LevelWord)
    /\ LET a == RunEnd(s, i + 5, "\\s")
           b == RunEnd(s, a, "\\d")
           c == RunEnd(s, b, "\\s")
       IN  /\ b > a
           /\ c < Len(s)
           /\ s[c + 1] = "."

LevelMatchAt(s, i) ==
    LET a == RunEnd(s, i + 5, "\\s")
        b == RunEnd(s, a, "\\d")
        c == RunEnd(s, b, "\\s")
        d == RunEnd(s, c + 1, "\\s")
        e == RunEnd(s, d, ".")
    IN  [start |-> i, end |-> e, g1 |-> Slice(s, a, b), g2 |-> Slice(s, d, e)]

\* list(level_pattern.finditer(s)), scanning from offset pos
RECURSIVE LevelFindIter(_, _)
LevelFindIter(s, pos) ==
    IF pos >= Len(s) THEN <<>>
    ELSE IF LevelMatchesAt(s, pos)
         THEN <<LevelMatchAt(s, pos)>> \o LevelFindIter(s, LevelMatchAt(s, pos).end)
         ELSE LevelFindIter(s, pos + 1)

(* --------------------------- the two loops ----------------------------- *)

\* a slip: every Area span runs to the end of the buffer
AreaEndIndexToEnd(matches, i, content_len) == content_len

\* end_index of the i-th (0-based) outer match
AreaEndIndex(matches, i, content_len) ==
    IF i + 1 < Len(matches) THEN matches[i + 2].start ELSE content_len

\* a slip: every Level span runs to the end of the Area span
LevelEndIndexToEnd(level_matches, j, area_len) == area_len

\* a slip: the last Level span is cut at its header's end
LevelEndIndexNoRemainder(level_matches, j, area_len) ==
    IF j + 1 < Len(level_matches) THEN level_matches[j + 2].start
    ELSE level_matches[j + 1].end

\* l_end of the j-th (0-based) inner match
LevelEndIndex(level_matches, j, area_len) ==
    IF j + 1 < Len(level_matches) THEN level_matches[j + 2].start ELSE area_len

\* the (l_start, l_end) pairs of the inner loop over area_text
LevelSpans(area_text) ==
    LET level_matches == LevelFindIter(area_text, 0)
    IN  [j \in 1..Len(level_matches) |->
            [l_start |-> level_matches[j].end,
             l_end |-> LevelEndIndex(level_matches, j - 1, Len(area_text))]]

\* the levels list the inner loop builds from area_text
ParseLevels(area_text) ==
    LET level_matches == LevelFindIter(area_text, 0)
    IN  [j \in 1..Len(level_matches) |->
            [level |-> ParseInt(level_matches[j].g1),
             title |-> Strip(level_matches[j].g2),
             description |->
                 Normalize(Slice(area_text, level_matches[j].end,
                                 LevelEndIndex(level_matches, j - 1,
                                               Len(area_text))))]]

\* a slip: the lookup never finds the entry
FindAxisNever(data, axis_num) == 0

\* index in data of the first Axis entry with this id, 0 when there is none
FindAxis(data, axis_num) ==
    IF \E k \in 1..Len(data) : data[k].id = axis_num
    THEN CHOOSE k \in 1..Len(data) :
             /\ data[k].id = axis_num
             /\ \A h \in 1..(k - 1) : data[h].id # axis_num
    ELSE 0

\* a slip: an Area whose id the Axis already holds replaces the one held
AddToStructureMerge(data, axis_num, area) ==
    LET k == FindAxis(data, axis_num)
    IN  IF k = 0
        THEN Append(data, [id |-> axis_num,
                           name |-> <<"A", "x", "i", "s", " ">>
                                    \o IntToStr(axis_num),
                           areas |-> <<area>>])
        ELSE IF \E j \in 1..Len(data[k].areas) : data[k].areas[j].id = area.id
             THEN [data EXCEPT ![k].areas =
                      [j \in 1..Len(@) |->
                          IF @[j].id = area.id THEN area ELSE @[j]]]
             ELSE [data EXCEPT ![k].areas = Append(@, area)]

\* a slip: the Area is put in front of the Axis entry's areas
AddToStructurePrepend(data, axis_num, area) ==
    LET k == FindAxis(data, axis_num)
    IN  IF k = 0
        THEN Append(data, [id |-> axis_num,
                           name |-> <<"A", "x", "i", "s", " ">>
                                    \o IntToStr(axis_num),
                           areas |-> <<area>>])
        ELSE [data EXCEPT ![k].areas = <<area>> \o @]

\* a slip: an Area without Levels is not added
AddToStructureSkipEmpty(data, axis_num, area) ==
    IF area.levels = <<>> THEN data
    ELSE LET k == FindAxis(data, axis_num)
         IN  IF k = 0
             THEN Append(data, [id |-> axis_num,
                                name |-> <<"A", "x", "i", "s", " ">>
                                         \o IntToStr(axis_num),
                                areas |-> <<area>>])
             ELSE [data EXCEPT ![k].areas = Append(@, area)]

\* "Add to structure": the Axis entry is created on first sight of its id
\* and the Area is appended to the entry's areas
AddToStructure(data, axis_num, area) ==
    LET k == FindAxis(data, axis_num)
        withAxis == IF k = 0
                    THEN Append(data,
                                [id |-> axis_num,
                                 name |-> <<"A", "x", "i", "s", " ">>
                                          \o IntToStr(axis_num),
                                 areas |-> <<>>])
                    ELSE data
        kk == IF k = 0 THEN Len(withAxis) ELSE k
    IN  [withAxis EXCEPT ![kk].areas = Append(@, area)]

(* ------------------------------ inputs --------------------------------- *)

\* Lines and pieces the input buffers are assembled from: complete header
\* lines, a header whose line has nothing after the period, a header with
\* whitespace inside and a number of two digits, and plain text.
Fragments ==
    { AreaWord \o <<"1", "A", ".", "p", "\n">>,
      AreaWord \o <<"2", "A", ".", "q", "\n">>,
      AreaWord \o <<"2", "B", ".">>,
      AreaWord \o <<"9", "C", ".", "r", "\n">>,
      LevelWord \o <<" ", "1", ".", "t", "\n">>,
      LevelWord \o <<" ", "2", ".", "u", "\n">>,
      LevelWord \o <<"\n", "1", "0", " ", ".">>,
      <<"x">>, <<" ">>, <<"\n">> }

RECURSIVE Concat(_)
Concat(ss) == IF ss = <<>> THEN <<>> ELSE Head(ss) \o Concat(Tail(ss))

Buffers ==
    { Concat(fs) : fs \in UNION { [1..n -> Fragments] : n \in 0..MaxFrags } }

\* the buffer of the concrete scenario of the specification, a line each
ScenarioBuffer ==
    << "A", "r", "e", "a", " ", "1", "A", ".", " ", "P", "r", "o", "c", "e", "s", "s", "e", "s", "\n",
       "L", "e", "v", "e", "l", " ", "1", ".", " ", "B", "a", "s", "i", "c", "\n",
       "s", "o", "m", "e", " ", "t", "e", "x", "t", "\n",
       "L", "e", "v", "e", "l", " ", "2", ".", " ", "A", "d", "v", "a", "n", "c", "e", "d", "\n",
       "m", "o", "r", "e", " ", "t", "e", "x", "t", "\n",
       "A", "r", "e", "a", " ", "1", "B", ".", " ", "O", "t", "h", "e", "r", "\n",
       "L", "e", "v", "e", "l", " ", "1", ".", " ", "X", "\n",
       "t", "e", "x", "t" >>

\* the file contents parse_drd_content is run on
Inputs == Buffers \cup {ScenarioBuffer}

\* the Level span texts the description clean-up is applied to
DescChars == {"x", " ", "\n", "\t", "\r"}

SpanTexts == UNION { [1..n -> DescChars] : n \in 0..MaxDescLen }

(* ------------------------------- state --------------------------------- *)

VARIABLES content, pc, area_matches, i, drd_data, spans, result,
          span_text, lvl_desc, data, axis_pos

vars == <<content, pc, area_matches, i, drd_data, spans, result,
          span_text, lvl_desc, data, axis_pos>>

Init ==
    /\ content \in Inputs
    /\ pc = "start"
    /\ area_matches = <<>>
    /\ i = 0
    /\ drd_data = <<>>
    /\ spans = <<>>
    /\ result = <<>>
    /\ span_text = <<>>
    /\ lvl_desc = <<>>
    /\ data = <<>>
    /\ axis_pos = 0

\* the statements before the outer loop
FindAreas ==
    /\ pc = "start"
    /\ area_matches' = AreaFindIter(content, 0)
    /\ drd_data' = <<>>
    /\ i' = 0
    /\ pc' = "loop"
    /\ UNCHANGED <<content, spans, result, span_text, lvl_desc, data, axis_pos>>

\* one iteration of the outer loop, inner loop included
AreaIteration ==
    /\ pc = "loop"
    /\ i < Len(area_matches)
    /\ LET match == area_matches[i + 1]
           axis_num == ParseInt(match.g1)
           area_letter == match.g2
           area_name == Strip(match.g3)
           start_index == match.end
           end_index == AreaEndIndex(area_matches, i, Len(content))
           area_text == Slice(content, start_index, end_index)
       IN  /\ drd_data' = AddToStructure(drd_data, axis_num,
                              [id |-> IntToStr(axis_num) \o area_letter,
                               name |-> area_name,
                               levels |-> ParseLevels(area_text)])
           /\ spans' = Append(spans, [start_index |-> start_index,
                                      end_index |-> end_index,
                                      levels |-> LevelSpans(area_text)])
    /\ i' = i + 1
    /\ UNCHANGED <<content, pc, area_matches, result, span_text, lvl_desc, data, axis_pos>>

\* return drd_data
Return ==
    /\ pc = "loop"
    /\ i >= Len(area_matches)
    /\ result' = drd_data
    /\ pc' = "done"
    /\ UNCHANGED <<content, area_matches, i, drd_data, spans, span_text, lvl_desc, data, axis_pos>>

\* open() or read() raises: the function has no handler, the exception
\* reaches the caller and nothing is returned
ReadFails ==
    /\ pc = "start"
    /\ pc' = "raised"
    /\ UNCHANGED <<content, area_matches, i, drd_data, spans, result,
                   span_text, lvl_desc, data, axis_pos>>

\* a slip: the loop wrapped in a handler that stops and returns what is built
IterationFailsReturnsBuilt ==
    /\ pc = "loop"
    /\ i < Len(area_matches)
    /\ result' = drd_data
    /\ pc' = "done"
    /\ UNCHANGED <<content, area_matches, i, drd_data, spans,
                   span_text, lvl_desc, data, axis_pos>>

\* a statement of an iteration raises (the loop body of lines 24-70 has no
\* try): the exception reaches the caller, the list built so far is dropped
\* with the frame and nothing is returned
IterationFails ==
    /\ pc = "loop"
    /\ i < Len(area_matches)
    /\ pc' = "raised"
    /\ UNCHANGED <<content, area_matches, i, drd_data, spans, result,
                   span_text, lvl_desc, data, axis_pos>>

(* ------------------------- the calling script -------------------------- *)

\* the ids the table axis_names has a name for
AxisNameIds == 1..7

\* axis_names[k]
axis_names(k) ==
    CASE k = 1 ->
           <<"D", "i", "g", "i", "t", "a", "l", " ", "P", "r", "o", "c", "e", "s", "s", "e", "s">>
      [] k = 2 ->
           <<"D", "i", "g", "i", "t", "a", "l", " ", "P", "r", "o", "d", "u", "c", "t", "s">>
      [] k = 3 ->
           <<"D", "i", "g", "i", "t", "a", "l", " ", "B", "u", "s", "i", "n", "e", "s", "s", " ", "M", "o", "d", "e", "l", "s">>
      [] k = 4 ->
           <<"D", "a", "t", "a", " ", "M", "a", "n", "a", "g", "e", "m", "e", "n", "t">>
      [] k = 5 ->
           <<"D", "i", "g", "i", "t", "a", "l", " ", "C", "u", "l", "t", "u", "r", "e">>
      [] k = 6 ->
           <<"C", "y", "b", "e", "r", "s", "e", "c", "u", "r", "i", "t", "y">>
      [] k = 7 ->
           <<"A", "r", "t", "i", "f", "i", "c", "i", "a", "l", " ", "I", "n", "t", "e", "l", "l", "i", "g", "e", "n", "c", "e">>

\* a slip: axis["name"] = axis_names.get(axis["id"]), without the test; the
\* name of an id the table lacks becomes None (the empty text here)
EnrichNameUnguarded(axis) ==
    [axis EXCEPT !.name = IF axis.id \in AxisNameIds THEN axis_names(axis.id)
                          ELSE <<>>]

\* the body of the loop over data: the name is overwritten when the id is
\* a key of the table
EnrichName(axis) ==
    IF axis.id \in AxisNameIds
    THEN [axis EXCEPT !.name = axis_names(axis.id)]
    ELSE axis

\* data = parse_drd_content(...) and the table
MainReceive ==
    /\ pc = "done"
    /\ data' = result
    /\ axis_pos' = 0
    /\ pc' = "enrich"
    /\ UNCHANGED <<content, area_matches, i, drd_data, spans, result,
                   span_text, lvl_desc>>

\* one iteration of "for axis in data"
EnrichAxis ==
    /\ pc = "enrich"
    /\ axis_pos < Len(data)
    /\ data' = [data EXCEPT ![axis_pos + 1] = EnrichName(@)]
    /\ axis_pos' = axis_pos + 1
    /\ UNCHANGED <<content, pc, area_matches, i, drd_data, spans, result,
                   span_text, lvl_desc>>

\* print(json.dumps(data, indent=2))
PrintData ==
    /\ pc = "enrich"
    /\ axis_pos >= Len(data)
    /\ pc' = "printed"
    /\ UNCHANGED <<content, area_matches, i, drd_data, spans, result,
                   span_text, lvl_desc, data, axis_pos>>

Next == FindAreas \/ AreaIteration \/ Return
            \/ ReadFails \/ IterationFails
            \/ MainReceive \/ EnrichAxis \/ PrintData

Spec == Init /\ [][Next]_vars

(* ------------- the description clean-up, statement by statement -------- *)

DescInit ==
    /\ span_text \in SpanTexts
    /\ lvl_desc = span_text
    /\ pc = "replace"
    /\ content = <<>>
    /\ area_matches = <<>>
    /\ i = 0
    /\ drd_data = <<>>
    /\ spans = <<>>
    /\ result = <<>>
    /\ data = <<>>
    /\ axis_pos = 0

\* .replace('\n', ' ')
DescReplace ==
    /\ pc = "replace"
    /\ lvl_desc' = ReplaceNewlines(lvl_desc)
    /\ pc' = "strip"
    /\ UNCHANGED <<content, area_matches, i, drd_data, spans, result, span_text,
                 data, axis_pos>>

\* .strip()
DescStrip ==
    /\ pc = "strip"
    /\ lvl_desc' = Strip(lvl_desc)
    /\ pc' = "sub"
    /\ UNCHANGED <<content, area_matches, i, drd_data, spans, result, span_text,
                 data, axis_pos>>

\* lvl_desc = re.sub(r'\s+', ' ', lvl_desc)
DescSub ==
    /\ pc = "sub"
    /\ lvl_desc' = SubSpaces(lvl_desc, 0)
    /\ pc' = "cleaned"
    /\ UNCHANGED <<content, area_matches, i, drd_data, spans, result, span_text,
                 data, axis_pos>>

DescNext == DescReplace \/ DescStrip \/ DescSub

DescSpec == DescInit /\ [][DescNext]_vars

(* ------------------------- notions of the claims ----------------------- *)

Done == pc = "done"

NumMatches == Len(area_matches)

\* the axis digit and area letter of the k-th outer header, read off the buffer
HeaderDigit(k) == content[area_matches[k].start + 6]
HeaderLetter(k) == content[area_matches[k].start + 7]

MatchDigits == [k \in 1..NumMatches |-> DigitVal(HeaderDigit(k))]

AxisIds(tree) == [k \in 1..Len(tree) |-> tree[k].id]

\* s with every later repeat of an element removed, from index k on
RECURSIVE KeepFirst(_, _)
KeepFirst(s, k) ==
    IF k > Len(s) THEN <<>>
    ELSE (IF \E h \in 1..(k - 1) : s[h] = s[k] THEN <<>> ELSE <<s[k]>>)
         \o KeepFirst(s, k + 1)

\* number of Area spans the offset p lies in
SpansAt(p) ==
    Cardinality({k \in 1..Len(spans) :
                    spans[k].start_index <= p /\ p < spans[k].end_index})

\* number of outer headers after the first whose own text the offset p lies in
LaterHeadersAt(p) ==
    Cardinality({k \in 2..NumMatches :
                    area_matches[k].start <= p /\ p < area_matches[k].end})

\* the offsets from the first outer match's end to the end of the buffer
OuterPortion ==
    IF NumMatches = 0 THEN {} ELSE area_matches[1].end..(Len(content) - 1)

(* -------------------------------- C1 ----------------------------------- *)

\* C1: the Axis ids of the returned list are the axis digits of the outer
\* matches in document order with every later repeat removed: one entry per
\* distinct id, in first-occurrence order.
C1_AxisIdsFirstOccurrence ==
    Done => AxisIds(result) = KeepFirst(MatchDigits, 1)

\* three outer headers, two of them sharing the digit 2, and 2 seen before 1
C1_Witness ==
    /\ Done
    /\ NumMatches = 3
    /\ AxisIds(result) = <<2, 1>>

(* -------------------------------- C2 ----------------------------------- *)

\* C2 as stated: every offset from the first outer match's end to the end of
\* the buffer lies in exactly one Area span.
C2_SpansCoverWithoutGaps ==
    Done => \A p \in OuterPortion : SpansAt(p) = 1

\* C2, amended: the k-th Area span runs from the k-th outer match's end to
\* the next outer match's start (the end of the buffer for the last one),
\* the spans do not overlap, and every offset from the first outer match's
\* end to the end of the buffer lies either in exactly one Area span or in
\* the text of exactly one later outer header, never in both.
C2_SpansAndHeadersPartition ==
    Done =>
        /\ Len(spans) = NumMatches
        /\ \A k \in 1..NumMatches :
              /\ spans[k].start_index = area_matches[k].end
              /\ spans[k].end_index =
                     IF k < NumMatches THEN area_matches[k + 1].start
                     ELSE Len(content)
              /\ spans[k].start_index <= spans[k].end_index
        /\ \A p \in OuterPortion : SpansAt(p) + LaterHeadersAt(p) = 1

\* two Areas, the first with a non-empty span
C2_Witness ==
    /\ Done
    /\ NumMatches >= 2
    /\ spans[1].end_index > spans[1].start_index

(* -------------------------------- C3 ----------------------------------- *)

\* the text of the k-th Area span, cut out of the buffer
AreaTextOf(k) == Slice(content, spans[k].start_index, spans[k].end_index)

\* the inner matches of the k-th Area span
InnerMatches(k) == LevelFindIter(AreaTextOf(k), 0)

\* number of Level spans of the k-th Area the offset p (into its span) lies in
LevelSpansAt(k, p) ==
    Cardinality({j \in 1..Len(spans[k].levels) :
                    /\ spans[k].levels[j].l_start <= p
                    /\ p < spans[k].levels[j].l_end})

\* number of inner headers after the first whose own text the offset p lies in
LaterInnerHeadersAt(k, p) ==
    Cardinality({j \in 2..Len(InnerMatches(k)) :
                    /\ InnerMatches(k)[j].start <= p
                    /\ p < InnerMatches(k)[j].end})

\* C3 as stated: the Level spans of an Area partition its span, the text
\* before the first Level header included.
C3_LevelSpansPartitionAreaSpan ==
    Done => \A k \in 1..Len(spans) :
                \A p \in 0..(Len(AreaTextOf(k)) - 1) : LevelSpansAt(k, p) = 1

\* C3, amended: the Level spans of an Area come from the inner matches of
\* its own span, lie inside that span and do not overlap; every offset of
\* the span from the first inner match's end on lies either in exactly one
\* Level span or in the text of exactly one later inner header, and the
\* offsets before the first inner match's end (all of them when the span
\* has no inner match) lie in no Level span.
C3_LevelSpansAndHeadersPartition ==
    Done => \A k \in 1..Len(spans) :
        LET text == AreaTextOf(k)
            lm == InnerMatches(k)
            ls == spans[k].levels
        IN  /\ Len(ls) = Len(lm)
            /\ \A j \in 1..Len(ls) :
                  /\ ls[j].l_start = lm[j].end
                  /\ ls[j].l_end = IF j < Len(lm) THEN lm[j + 1].start
                                   ELSE Len(text)
                  /\ 0 <= ls[j].l_start
                  /\ ls[j].l_start <= ls[j].l_end
                  /\ ls[j].l_end <= Len(text)
            /\ \A p \in 0..(Len(text) - 1) :
                  IF lm = <<>> \/ p < lm[1].end
                  THEN LevelSpansAt(k, p) = 0
                  ELSE LevelSpansAt(k, p) + LaterInnerHeadersAt(k, p) = 1

\* an Area with text before its first Level header and two Levels
C3_Witness ==
    /\ Done
    /\ \E k \in 1..Len(spans) :
          /\ Len(spans[k].levels) >= 2
          /\ InnerMatches(k)[1].start > 0

(* ---------------------------- C4 and C5 -------------------------------- *)

\* the indices of the outer matches with axis number d, ascending from k
RECURSIVE MatchesOfAxis(_, _)
MatchesOfAxis(d, k) ==
    IF k > NumMatches THEN <<>>
    ELSE (IF MatchDigits[k] = d THEN <<k>> ELSE <<>>) \o MatchesOfAxis(d, k + 1)

RECURSIVE TotalAreas(_)
TotalAreas(tree) ==
    IF tree = <<>> THEN 0 ELSE Len(Head(tree).areas) + TotalAreas(Tail(tree))

\* C4: every outer match produces exactly one Area and Areas are never
\* merged: the Areas of all Axis entries number as many as the outer
\* matches, each Axis holds one Area per match of its digit, and an Area's
\* id is the header's digit followed by its letter.
C4_OneAreaPerOuterMatch ==
    Done =>
        /\ TotalAreas(result) = NumMatches
        /\ \A a \in 1..Len(result) :
              LET ms == MatchesOfAxis(result[a].id, 1)
              IN  /\ Len(result[a].areas) = Len(ms)
                  /\ \A j \in 1..Len(ms) :
                        result[a].areas[j].id =
                            <<HeaderDigit(ms[j]), HeaderLetter(ms[j])>>

\* two outer headers with the same digit and letter gave two Areas
C4_Witness ==
    /\ Done
    /\ \E a \in 1..Len(result) :
          /\ Len(result[a].areas) >= 2
          /\ result[a].areas[1].id = result[a].areas[2].id

\* the inner header that ends at offset e of text names the number n and
\* the title t
InnerHeaderEndingAt(text, e, n, t) ==
    \E p \in 0..(e - 1) :
        /\ LevelMatchesAt(text, p)
        /\ LevelMatchAt(text, p).end = e
        /\ ParseInt(LevelMatchAt(text, p).g1) = n
        /\ Strip(LevelMatchAt(text, p).g2) = t

\* C5: the Areas of an Axis and the Levels of an Area are in the order of
\* their headers in the buffer: the outer matches are ascending in offset,
\* the j-th Area of an Axis is the one of the j-th outer match of its digit,
\* and the j-th Level of an Area is the one whose header ends where the
\* j-th Level span begins, the Level spans being ascending in offset.
C5_DocumentOrder ==
    Done =>
        /\ \A k \in 1..(NumMatches - 1) :
              area_matches[k].end <= area_matches[k + 1].start
        /\ \A a \in 1..Len(result) :
              LET ms == MatchesOfAxis(result[a].id, 1)
              IN  /\ Len(result[a].areas) = Len(ms)
                  /\ \A j \in 1..Len(ms) :
                        LET area == result[a].areas[j]
                            ls == spans[ms[j]].levels
                        IN  /\ area.id = <<HeaderDigit(ms[j]),
                                           HeaderLetter(ms[j])>>
                            /\ area.name = Strip(area_matches[ms[j]].g3)
                            /\ Len(area.levels) = Len(ls)
                            /\ \A h \in 1..(Len(ls) - 1) :
                                  ls[h].l_end < ls[h + 1].l_start
                            /\ \A h \in 1..Len(ls) :
                                  InnerHeaderEndingAt(AreaTextOf(ms[j]),
                                      ls[h].l_start, area.levels[h].level,
                                      area.levels[h].title)

\* an Axis with two Areas of different names, the first with Levels of
\* descending numbers
C5_Witness ==
    /\ Done
    /\ \E a \in 1..Len(result) :
          /\ Len(result[a].areas) >= 2
          /\ result[a].areas[1].name # result[a].areas[2].name
          /\ Len(result[a].areas[1].levels) >= 2
          /\ result[a].areas[1].levels[1].level
                 > result[a].areas[1].levels[2].level

(* -------------------------------- C6 ----------------------------------- *)

\* the clean-up in the order the specification words it: line breaks to
\* spaces, runs collapsed, then trimmed
CleanInSpecOrder(s) == Strip(SubSpaces(ReplaceNewlines(s), 0))

\* C6: a cleaned Level description has no line break, no two consecutive
\* whitespace characters and no whitespace at either end, is empty when the
\* span text is all whitespace, and equals what the specified order of the
\* three steps gives.
C6_DescriptionClean ==
    pc = "cleaned" =>
        /\ \A k \in 1..Len(lvl_desc) : lvl_desc[k] \notin {"\n", "\r"}
        /\ \A k \in 1..(Len(lvl_desc) - 1) :
              ~(IsSpace(lvl_desc[k]) /\ IsSpace(lvl_desc[k + 1]))
        /\ lvl_desc # <<>> =>
              ~IsSpace(lvl_desc[1]) /\ ~IsSpace(lvl_desc[Len(lvl_desc)])
        /\ (\A k \in 1..Len(span_text) : IsSpace(span_text[k])) =>
              lvl_desc = <<>>
        /\ lvl_desc = CleanInSpecOrder(span_text)

\* a span text with whitespace in front and a run with a line break inside
C6_Witness ==
    /\ pc = "cleaned"
    /\ Len(span_text) = 5
    /\ IsSpace(span_text[1])
    /\ span_text[3] = "\n"
    /\ IsSpace(span_text[4])
    /\ lvl_desc = <<"x", " ", "x">>

(* -------------------- the Area made of an outer match ------------------ *)

\* position of the k-th outer match among the matches of its digit
RankInAxis(k) ==
    Cardinality({h \in 1..k : MatchDigits[h] = MatchDigits[k]})

\* tree holds an Area for the k-th outer match
HasAreaOfMatch(tree, k) ==
    \E a \in 1..Len(tree) :
        /\ tree[a].id = MatchDigits[k]
        /\ Len(tree[a].areas) >= RankInAxis(k)

AreaOfMatch(tree, k) ==
    LET a == CHOOSE a \in 1..Len(tree) : tree[a].id = MatchDigits[k]
    IN  tree[a].areas[RankInAxis(k)]

(* -------------------------------- C7 ----------------------------------- *)

NoOuterHeader ==
    \A p \in 0..(Len(content) - 1) : ~AreaMatchesAt(content, p)

NoInnerHeader(k) ==
    \A p \in 0..(Len(AreaTextOf(k)) - 1) : ~LevelMatchesAt(AreaTextOf(k), p)

\* C7: a buffer without outer header (the empty one included) returns the
\* empty list, and an Area whose span has no inner header is in the result,
\* under its Axis, with an empty levels list.
C7_DegenerateInputs ==
    Done =>
        /\ NoOuterHeader => result = <<>>
        /\ \A k \in 1..NumMatches :
              NoInnerHeader(k) =>
                  /\ HasAreaOfMatch(result, k)
                  /\ AreaOfMatch(result, k).id =
                         <<HeaderDigit(k), HeaderLetter(k)>>
                  /\ AreaOfMatch(result, k).levels = <<>>

\* an Area with span text but no Level header next to an Area with Levels
C7_Witness ==
    /\ Done
    /\ NumMatches = 2
    /\ \E k \in 1..2 :
          /\ NoInnerHeader(k)
          /\ AreaTextOf(k) # <<>>
          /\ AreaOfMatch(result, k).levels = <<>>
    /\ \E k \in 1..2 : ~NoInnerHeader(k)

(* -------------------------------- C8 ----------------------------------- *)

\* C8: the last Area span ends at the end of the buffer, and the last Level
\* of every Area has the cleaned text from its header's end to the end of
\* the Area span as description.
C8_LastSegmentAbsorbsRemainder ==
    Done =>
        /\ NumMatches >= 1 => spans[NumMatches].end_index = Len(content)
        /\ \A k \in 1..NumMatches :
              LET ls == spans[k].levels
                  n == Len(ls)
              IN  n >= 1 =>
                    /\ HasAreaOfMatch(result, k)
                    /\ Len(AreaOfMatch(result, k).levels) = n
                    /\ ls[n].l_end = Len(AreaTextOf(k))
                    /\ InnerHeaderEndingAt(AreaTextOf(k), ls[n].l_start,
                           AreaOfMatch(result, k).levels[n].level,
                           AreaOfMatch(result, k).levels[n].title)
                    /\ AreaOfMatch(result, k).levels[n].description =
                           Normalize(Slice(content,
                                           spans[k].start_index + ls[n].l_start,
                                           spans[k].end_index))

\* the buffer ends with text that matches no header, kept by the last Level
C8_Witness ==
    /\ Done
    /\ NumMatches >= 1
    /\ content[Len(content)] = "x"
    /\ Len(AreaOfMatch(result, NumMatches).levels) >= 1
    /\ LET ls == AreaOfMatch(result, NumMatches).levels
       IN  ls[Len(ls)].description = <<"x">>

(* -------------------------------- C9 ----------------------------------- *)

\* the trimmed text from offset p of s to the end of the line p is on
RestOfLine(s, p) == Strip(Slice(s, p, RunEnd(s, p, ".")))

\* offset just after the period of the inner header that starts at offset p
InnerPeriodEnd(text, p) ==
    RunEnd(text, RunEnd(text, RunEnd(text, p + 5, "\\s"), "\\d"), "\\s") + 1

\* C9: an Area name is the trimmed text after the period on the header's
\* own line, and a Level title is the trimmed text after the period on the
\* header's own line; neither holds text of a following line.
C9_NamesFromOwnLine ==
    Done =>
        \A k \in 1..NumMatches :
            /\ AreaOfMatch(result, k).name =
                   RestOfLine(content, area_matches[k].start + 8)
            /\ \A h \in 1..Len(InnerMatches(k)) :
                   AreaOfMatch(result, k).levels[h].title =
                       RestOfLine(AreaTextOf(k),
                           InnerPeriodEnd(AreaTextOf(k),
                                          InnerMatches(k)[h].start))

(* -------------------------------- C10 ---------------------------------- *)

\* the offsets after the start of the k-th outer header and before the
\* next outer header (the end of the buffer for the last one)
OffsetsOfArea(k) ==
    (area_matches[k].start + 1)..
        ((IF k < NumMatches THEN area_matches[k + 1].start
          ELSE Len(content)) - 1)

\* C10: every occurrence of the inner header grammar after an outer header
\* is a Level of the Area of the nearest preceding outer header: an Area has
\* as many Levels as inner headers occur between its header and the next.
C10_NoInnerHeaderDropped ==
    Done =>
        \A k \in 1..NumMatches :
            Len(AreaOfMatch(result, k).levels) =
                Cardinality({p \in OffsetsOfArea(k) : LevelMatchesAt(content, p)})

(* -------------------------------- C11 ---------------------------------- *)

\* the Areas the specification expects for its concrete scenario
ScenarioAreas ==
    << [id |-> <<"1", "A">>,
        name |-> <<"P", "r", "o", "c", "e", "s", "s", "e", "s">>,
        levels |->
            << [level |-> 1,
                  title |-> <<"B", "a", "s", "i", "c">>,
                  description |-> <<"s", "o", "m", "e", " ", "t", "e", "x", "t">>],
               [level |-> 2,
                  title |-> <<"A", "d", "v", "a", "n", "c", "e", "d">>,
                  description |-> <<"m", "o", "r", "e", " ", "t", "e", "x", "t">>] >>],
       [id |-> <<"1", "B">>,
        name |-> <<"O", "t", "h", "e", "r">>,
        levels |->
            << [level |-> 1,
                  title |-> <<"X">>,
                  description |-> <<"t", "e", "x", "t">>] >>] >>

\* C11: for the buffer of the concrete scenario the function returns one
\* Axis, of id 1, holding the Area 1A 'Processes' with the Levels
\* (1, 'Basic', 'some text') and (2, 'Advanced', 'more text') and then the
\* Area 1B 'Other' with the Level (1, 'X', 'text').
C11_ConcreteScenario ==
    (Done /\ content = ScenarioBuffer) =>
        /\ Len(result) = 1
        /\ result[1].id = 1
        /\ result[1].areas = ScenarioAreas

\* the function has returned on the scenario's buffer
C11_Witness ==
    /\ Done
    /\ content = ScenarioBuffer
    /\ NumMatches = 2
    /\ Len(spans[1].levels) = 2

(* -------------------------------- C12 ---------------------------------- *)

\* the placeholder name an Axis is created with
PlaceholderName(id) == <<"A", "x", "i", "s", " ", DigitChar(id)>>

\* C12: after the pass over data every Axis of an id the table holds has
\* the table's name, every other Axis has the placeholder 'Axis <id>' it
\* was created with, and ids, order of the Axis entries, Areas and Levels
\* are those of the list the function returned.
C12_NameEnrichment ==
    pc = "printed" =>
        /\ Len(data) = Len(result)
        /\ \A a \in 1..Len(data) :
              /\ data[a].id = result[a].id
              /\ data[a].areas = result[a].areas
              /\ DOMAIN data[a] = {"id", "name", "areas"}
              /\ data[a].id \in AxisNameIds =>
                     data[a].name = axis_names(data[a].id)
              /\ data[a].id \notin AxisNameIds =>
                     /\ data[a].name = PlaceholderName(data[a].id)
                     /\ data[a].name = result[a].name

\* the pass ran over an Axis the table lacks followed by one it holds
C12_Witness ==
    /\ pc = "printed"
    /\ Len(data) = 2
    /\ data[1].id = 9
    /\ data[2].id = 1
    /\ data[2].name # result[2].name

(* -------------------------------- C13 ---------------------------------- *)

\* C13: the three statements of the clean-up applied to a cleaned
\* description give it back: normalize(normalize(s)) = normalize(s).
C13_CleanUpIdempotent ==
    pc = "cleaned" =>
        SubSpaces(Strip(ReplaceNewlines(lvl_desc)), 0) = lvl_desc

\* a span text the clean-up changed at both ends and inside
C13_Witness ==
    /\ pc = "cleaned"
    /\ span_text = <<"\n", "x", "\t", "\r", "x">>
    /\ lvl_desc = <<"x", " ", "x">>

(* -------------------------------- C14 ---------------------------------- *)

\* the function has returned to its caller
Returned == pc \in {"done", "enrich", "printed"}

\* C14: the caller receives a tree only from the return statement after the
\* last iteration, and that tree holds an Area with its full Level list for
\* every outer match; while the function runs and after it has raised, the
\* caller has received nothing.
C14_AllOrNothing ==
    /\ pc \in {"start", "loop", "raised"} => (result = <<>> /\ data = <<>>)
    /\ Returned =>
          /\ i = NumMatches
          /\ Len(spans) = NumMatches
          /\ result = drd_data
          /\ TotalAreas(result) = NumMatches
          /\ \A k \in 1..NumMatches :
                /\ HasAreaOfMatch(result, k)
                /\ Len(AreaOfMatch(result, k).levels) = Len(InnerMatches(k))

\* an iteration raised after an Area had been built and before the last one
C14_Witness ==
    /\ pc = "raised"
    /\ i >= 1
    /\ i < NumMatches
    /\ drd_data # <<>>
    /\ result = <<>>

====
